---- MODULE Spec2Model ----
(***************************************************************************)
(* A model of oxide's generate_output (src/main.rs): the scan that turns a *)
(* directory of .xlsx workbooks into one comma-separated output file, and  *)
(* of its helper format_header.                                            *)
(*                                                                         *)
(* Spec is one run over a directory of arbitrary sheets, SpecTwice a run    *)
(* and a second run over the same directory, SpecTables one run over a     *)
(* directory of sheets that each begin with a header; SpecFormat and       *)
(* SpecHeaders are single calls of format_header and of the header         *)
(* construction.                                                           *)
(*                                                                         *)
(* Text is modelled as a sequence of one-character strings, so that trim,  *)
(* to_lowercase, replace and join act on characters as the Rust code does. *)
(* Row indices are 0-based as in the source; TLA+ sequences are 1-based,   *)
(* so row index i of a sheet is rows[i + 1].                               *)
(***************************************************************************)
EXTENDS Integers, Sequences, FiniteSets, TLC

VARIABLES
    output_exists,      \* whether the output file exists on disk
    output,             \* the lines of the output file, each a text
    dir,                \* the entries read_dir yields, in enumeration order
    pc,                 \* position in generate_output
    result,             \* "running", "Ok" or "Err": what generate_output returns
    error,              \* the call whose failure ended the run, or "none"
    entry_idx,          \* number of directory entries taken from the iterator
    headers_set,        \* line 175
    table_header_row,   \* line 189
    table_end_row,      \* line 190
    remarks_start_row,  \* line 191
    report_date,        \* line 193
    row_idx,            \* number of rows of the current sheet already scanned
    emitted,            \* history: for each line written by this run, what it is
    call,               \* an isolated call of a pure function (header helpers)
    first_run           \* what an earlier run of generate_output ended with, if any

vars == <<output_exists, output, dir, pc, result, error, entry_idx, headers_set,
          table_header_row, table_end_row, remarks_start_row, report_date,
          row_idx, emitted, call, first_run>>

-----------------------------------------------------------------------------
(* Bounds of the model *)

\* entries in the input directory
MaxEntries == 2
\* rows over all the sheets of the directory
MaxTotalRows == 4
\* columns of a sheet
MaxCols == 2
\* characters of an input of format_header
MaxStrLen == 4
\* columns of a header row given to the header construction alone
MaxHdrCols == 2

-----------------------------------------------------------------------------
(* Text *)

DATA_START_ID == <<"H", "o", "l", "e", " ", "N", "u", "m", "b", "e", "r">>
DATA_END_ID == <<"S", "u", "b", "-", "T", "o", "t", "a", "l", "s">>
REMARKS_START_ID == <<"R", "e", "m", "a", "r", "k", "s">>

\* char::is_whitespace, on the characters the model uses
is_whitespace(c) == c \in {" ", "\n", "\t", "\r"}

\* str::trim_start / trim_end / trim
RECURSIVE trim_start(_)
trim_start(s) ==
    IF s # <<>> /\ is_whitespace(Head(s)) THEN trim_start(Tail(s)) ELSE s

RECURSIVE trim_end(_)
trim_end(s) ==
    IF s # <<>> /\ is_whitespace(s[Len(s)])
    THEN trim_end(SubSeq(s, 1, Len(s) - 1))
    ELSE s

trim(s) == trim_end(trim_start(s))

\* char::to_lowercase, on the letters the model uses
lower_char(c) ==
    CASE c = "A" -> "a" [] c = "B" -> "b" [] c = "D" -> "d" [] c = "H" -> "h"
      [] c = "N" -> "n" [] c = "R" -> "r" [] c = "S" -> "s" [] c = "T" -> "t"
      [] OTHER -> c

to_lowercase(s) == [i \in 1..Len(s) |-> lower_char(s[i])]

\* str::replace(from, to) for one-character patterns
replace(s, from, to) == [i \in 1..Len(s) |-> IF s[i] = from THEN to ELSE s[i]]

format_header_no_hyphen(header) ==
    replace(replace(to_lowercase(trim(header)), " ", "_"), "\n", "_")

\* fn format_header, lines 270-277
format_header(header) ==
    replace(replace(replace(to_lowercase(trim(header)), " ", "_"), "-", "_"),
            "\n", "_")

\* [String]::join(sep)
RECURSIVE join(_, _)
join(parts, sep) ==
    IF parts = <<>> THEN <<>>
    ELSE IF Len(parts) = 1 THEN parts[1]
    ELSE parts[1] \o sep \o join(Tail(parts), sep)

-----------------------------------------------------------------------------
(* Cells (calamine::Data): a type and the text the cell displays as *)

EmptyCell == [t |-> "Empty", s |-> <<>>]
StringCell(s) == [t |-> "String", s |-> s]
FloatCell(s) == [t |-> "Float", s |-> s]
BoolCell(s) == [t |-> "Bool", s |-> s]

None == <<>>
Some(x) == <<x>>
unwrap_or_default(opt) == IF opt = None THEN <<>> ELSE opt[1]

\* DataType::as_string: the text of a string or a number, None for the rest
as_string(c) == IF c.t \in {"String", "Float", "Int"} THEN Some(c.s) ELSE None

\* Display for Data (c.to_string())
to_string(c) == c.s

\* ToCellDeserializer::is_empty: only Data::Empty
is_empty(c) == c.t = "Empty"

-----------------------------------------------------------------------------
(* Header construction, lines 208-234 *)

main_header_no_fill(text, prev_main_header) == text

\* lines 214-220: an empty main header takes the previous non-empty one
main_header_of(text, prev_main_header) ==
    IF text = <<>> THEN prev_main_header ELSE text

\* lines 222-225
sub_header_of(sub_headers, i) ==
    unwrap_or_default(IF i <= Len(sub_headers) THEN as_string(sub_headers[i])
                      ELSE None)

\* lines 226-230
composite(main_header, sub_header) ==
    IF sub_header # <<>>
    THEN format_header(main_header \o <<"_">> \o sub_header)
    ELSE format_header(main_header)

\* lines 210-232: the map over the header-start row, i the 1-based column
RECURSIVE map_headers(_, _, _, _)
map_headers(row, sub_headers, i, prev_main_header) ==
    IF i > Len(row) THEN <<>>
    ELSE LET main_header ==
                 main_header_of(unwrap_or_default(as_string(row[i])),
                                prev_main_header)
         IN  <<composite(main_header, sub_header_of(sub_headers, i))>>
             \o map_headers(row, sub_headers, i + 1, main_header)

\* lines 209-234: the mapped fields and the pushed "date"
headers(row, sub_headers) ==
    Append(map_headers(row, sub_headers, 1, <<>>), <<"d", "a", "t", "e">>)

-----------------------------------------------------------------------------
(* The input directory: what read_dir yields and what calamine decodes *)

\* an entry whose extension is not "xlsx" (line 178)
NotXlsx == [ext |-> "txt", opens |-> FALSE, sheet |-> FALSE, rows |-> <<>>]
\* an .xlsx file open_workbook cannot open (line 186)
Unopenable == [ext |-> "xlsx", opens |-> FALSE, sheet |-> FALSE, rows |-> <<>>]
\* a workbook without a worksheet named like the file (line 188)
NoSheet == [ext |-> "xlsx", opens |-> TRUE, sheet |-> FALSE, rows |-> <<>>]
\* a workbook whose worksheet range has these rows
Workbook(rows) == [ext |-> "xlsx", opens |-> TRUE, sheet |-> TRUE, rows |-> rows]

DataCell == StringCell(<<"H", "1">>)

\* the first cells the sheets of the model choose from
FirstCells ==
    {StringCell(DATA_START_ID), StringCell(DATA_END_ID),
     StringCell(REMARKS_START_ID), DataCell, EmptyCell}

\* the cell in 1-based column c > 1 of a row that starts with `first`
RestCell(first, c) ==
    IF first = StringCell(DATA_START_ID)
    THEN (IF c = 2 THEN EmptyCell ELSE StringCell(<<"D">>))
    ELSE IF first = DataCell THEN FloatCell(<<"7">>)
    ELSE IF first = EmptyCell THEN StringCell(<<"n">>)
    ELSE EmptyCell

\* a range is rectangular: every row of a sheet has the sheet's width w
SheetRow(first, w) == [c \in 1..w |-> IF c = 1 THEN first ELSE RestCell(first, c)]

Sheets(n) ==
    IF n = 0 THEN {<<>>}
    ELSE UNION {[1..n -> {SheetRow(f, w) : f \in FirstCells}] : w \in 1..MaxCols}

\* the entries a directory can hold when `budget` more rows fit the bound
EntriesWithin(budget) ==
    {NotXlsx, Unopenable, NoSheet}
        \cup UNION {{Workbook(rows) : rows \in Sheets(n)} : n \in 0..budget}

RECURSIVE TotalRows(_)
TotalRows(d) == IF d = <<>> THEN 0 ELSE Len(Head(d).rows) + TotalRows(Tail(d))

\* a line left in the output file by an earlier run
StaleLine == <<"o", "l", "d">>

-----------------------------------------------------------------------------
(* generate_output, lines 162-268 *)

NoCall == [op |-> "none"]

Init ==
    /\ output \in {<<>>, <<StaleLine>>}
    /\ output_exists \in BOOLEAN
    /\ (output # <<>> => output_exists)
    /\ dir = <<>>
    /\ pc = "open"
    /\ result = "running"
    /\ error = "none"
    /\ entry_idx = 0
    /\ headers_set = FALSE
    /\ table_header_row = -1
    /\ table_end_row = -1
    /\ remarks_start_row = -1
    /\ report_date = <<>>
    /\ row_idx = 0
    /\ emitted = <<>>
    /\ call = NoCall
    /\ first_run = <<>>

scan_vars == <<table_header_row, table_end_row, remarks_start_row, report_date, row_idx>>

Fail_and_go_on(what) ==
    /\ pc' = pc
    /\ result' = result
    /\ error' = what

\* the ? operator: the run returns Err, nothing else changes
Fail(what) ==
    /\ pc' = "done"
    /\ result' = "Err"
    /\ error' = what

remove_file_skipped(lines) == lines

\* lines 166-168: what is left of the lines of the output file once the file,
\* if it existed, is removed
remove_file(lines) == <<>>

\* lines 170-173: create(true).append(true) keeps what a file already holds
open_append(lines) == lines

write_line_at_start(lines, line) == <<line>> \o lines

\* lines 172, 235, 260-261: the file is in append mode, a line written goes
\* after the lines the file holds
write_line(lines, line) == Append(lines, line)

\* lines 166-173: the output file is removed if it exists, then created
OpenOutput ==
    /\ pc = "open"
    /\ pc' = "read_dir"
    /\ output_exists' = TRUE
    /\ output' = open_append(remove_file(output))
    /\ UNCHANGED <<dir, result, error, entry_idx, headers_set, scan_vars, emitted, call, first_run>>

\* lines 166-167: exists or remove_file fails, the file is left as it was
RemoveOutputFails ==
    /\ pc = "open"
    /\ Fail("output_file")
    /\ UNCHANGED <<output_exists, output, dir, entry_idx, headers_set, scan_vars,
                   emitted, call, first_run>>

\* lines 170-173: open fails after the old file was removed
CreateOutputFails ==
    /\ pc = "open"
    /\ Fail("output_file")
    /\ output_exists' = FALSE
    /\ output' = <<>>
    /\ UNCHANGED <<dir, entry_idx, headers_set, scan_vars, emitted, call, first_run>>

\* the input directory as generate_output finds it: one more file is in it
PlaceEntry ==
    /\ pc = "read_dir"
    /\ first_run = <<>>
    /\ Len(dir) < MaxEntries
    /\ \E e \in EntriesWithin(MaxTotalRows - TotalRows(dir)) : dir' = Append(dir, e)
    /\ UNCHANGED <<output_exists, output, pc, result, error, entry_idx, headers_set,
                   scan_vars, emitted, call, first_run>>

\* line 176: read_dir lists the input directory
ReadDir ==
    /\ pc = "read_dir"
    /\ pc' = "entries"
    /\ UNCHANGED <<output_exists, output, dir, result, error, entry_idx, headers_set,
                   scan_vars, emitted, call, first_run>>

\* line 176: read_dir fails
ReadDirFails ==
    /\ pc = "read_dir"
    /\ Fail("read_dir")
    /\ UNCHANGED <<output_exists, output, dir, entry_idx, headers_set, scan_vars,
                   emitted, call, first_run>>

\* lines 176, 267: the iterator is exhausted, Ok(())
DirExhausted ==
    /\ pc = "entries"
    /\ entry_idx = Len(dir)
    /\ pc' = "done"
    /\ result' = "Ok"
    /\ UNCHANGED <<output_exists, output, dir, error, entry_idx, headers_set,
                   scan_vars, emitted, call, first_run>>

\* line 177: the iterator yields an error for the next entry
EntryFails ==
    /\ pc = "entries"
    /\ entry_idx < Len(dir)
    /\ Fail("dir_entry")
    /\ UNCHANGED <<output_exists, output, dir, entry_idx, headers_set, scan_vars,
                   emitted, call, first_run>>

\* lines 178-180
SkipNotXlsx ==
    /\ pc = "entries"
    /\ entry_idx < Len(dir)
    /\ dir[entry_idx + 1].ext # "xlsx"
    /\ entry_idx' = entry_idx + 1
    /\ UNCHANGED <<output_exists, output, dir, pc, result, error, headers_set,
                   scan_vars, emitted, call, first_run>>

\* line 186: open_workbook(&path)?
OpenWorkbookFails ==
    /\ pc = "entries"
    /\ entry_idx < Len(dir)
    /\ dir[entry_idx + 1].ext = "xlsx"
    /\ ~dir[entry_idx + 1].opens
    /\ entry_idx' = entry_idx + 1
    /\ Fail("open_workbook")
    /\ UNCHANGED <<output_exists, output, dir, headers_set, scan_vars, emitted, call, first_run>>

\* line 188: worksheet_range is not Ok, the body of the if let is skipped
WorksheetMissing ==
    /\ pc = "entries"
    /\ entry_idx < Len(dir)
    /\ dir[entry_idx + 1].ext = "xlsx"
    /\ dir[entry_idx + 1].opens
    /\ ~dir[entry_idx + 1].sheet
    /\ entry_idx' = entry_idx + 1
    /\ UNCHANGED <<output_exists, output, dir, pc, result, error, headers_set,
                   scan_vars, emitted, call, first_run>>

report_date_from_first_row(rows) ==
    unwrap_or_default(IF Len(rows) >= 1 /\ Len(rows[1]) >= 1
                      THEN as_string(rows[1][1]) ELSE None)

\* lines 193-196: r.get((1, 0)) as a string, or ""
report_date_of(rows) ==
    unwrap_or_default(IF Len(rows) >= 2 /\ Len(rows[2]) >= 1
                      THEN as_string(rows[2][1]) ELSE None)

\* lines 188-196
BeginScan ==
    /\ pc = "entries"
    /\ entry_idx < Len(dir)
    /\ dir[entry_idx + 1].ext = "xlsx"
    /\ dir[entry_idx + 1].opens
    /\ dir[entry_idx + 1].sheet
    /\ entry_idx' = entry_idx + 1
    /\ table_header_row' = -1
    /\ table_end_row' = -1
    /\ remarks_start_row' = -1
    /\ report_date' = report_date_of(dir[entry_idx + 1].rows)
    /\ row_idx' = 0
    /\ pc' = "rows"
    /\ UNCHANGED <<output_exists, output, dir, result, error, headers_set, emitted, call, first_run>>

\* the rows of the sheet being scanned, the row at row_idx and its first cell
CurRows == dir[entry_idx].rows
CurRow == CurRows[row_idx + 1]
\* line 199
first_cell == IF Len(CurRow) >= 1 THEN CurRow[1] ELSE EmptyCell
HasRow == pc = "rows" /\ row_idx < Len(CurRows)

\* line 200
is_data_start(c) == as_string(c) = Some(DATA_START_ID)
\* line 240
is_data_end(c) == as_string(c) = Some(DATA_END_ID)

is_pre_header_strict(idx, header_row) == idx < header_row

is_pre_header_or_unset(idx, header_row) == idx <= header_row \/ header_row < 0

\* line 245
is_pre_header(idx, header_row) == idx <= header_row

remarks_starts_le(remarks_row, c) ==
    remarks_row <= 0 /\ as_string(c) = Some(REMARKS_START_ID)

remarks_starts_every_time(remarks_row, c) == as_string(c) = Some(REMARKS_START_ID)

\* line 249
remarks_starts(remarks_row, c) ==
    remarks_row < 0 /\ as_string(c) = Some(REMARKS_START_ID)

in_table_without_header(header_row, end_row) == end_row < 0

in_table_without_end(header_row, end_row) == header_row > 0

\* line 254
in_table(header_row, end_row) == header_row > 0 /\ end_row < 0

\* line 208: r.rows().nth(sub_header_row).unwrap_or(&[])
sub_headers_of(rows, sub_header_row) ==
    IF sub_header_row + 1 <= Len(rows) THEN rows[sub_header_row + 1] ELSE <<>>

\* a continue, or the end of the loop body: on to the next row
NextRow == row_idx' = row_idx + 1

\* lines 197-263: the loop over the rows ends
RowsExhausted ==
    /\ pc = "rows"
    /\ row_idx = Len(CurRows)
    /\ pc' = "entries"
    /\ UNCHANGED <<output_exists, output, dir, result, error, entry_idx, headers_set,
                   scan_vars, emitted, call, first_run>>

sub_header_row_first_only(header_row, idx) == IF header_row < 0 THEN idx + 1 ELSE header_row

\* lines 201-202: the value table_header_row takes on a header-start row,
\* whatever it holds
sub_header_row(header_row, idx) == idx + 1

header_row_left_alone(header_row, idx) == header_row

\* lines 202-206: the assignment of line 202 is made before headers_set is
\* tested, so also on the path that continues at line 205
header_row_when_headers_set(header_row, idx) == sub_header_row(header_row, idx)

\* lines 200-206: a header-start row when the header is already written
HeaderStartSeen ==
    /\ HasRow
    /\ is_data_start(first_cell)
    /\ headers_set
    /\ table_header_row' = header_row_when_headers_set(table_header_row, row_idx)
    /\ NextRow
    /\ UNCHANGED <<output_exists, output, dir, pc, result, error, entry_idx,
                   headers_set, table_end_row, remarks_start_row, report_date,
                   emitted, call, first_run>>

\* lines 200-238: a header-start row that writes the header line
HeaderStartWrite ==
    /\ HasRow
    /\ is_data_start(first_cell)
    /\ ~headers_set
    /\ table_header_row' = sub_header_row(table_header_row, row_idx)
    /\ output' = write_line(output,
                            join(headers(CurRow, sub_headers_of(CurRows, row_idx + 1)),
                                 <<",">>))
    /\ emitted' = Append(emitted, [kind |-> "header", doc |-> entry_idx, row |-> row_idx])
    /\ headers_set' = TRUE
    /\ NextRow
    /\ UNCHANGED <<output_exists, dir, pc, result, error, entry_idx, table_end_row,
                   remarks_start_row, report_date, call, first_run>>

\* line 235: writeln! of the header line fails
HeaderWriteFails ==
    /\ HasRow
    /\ is_data_start(first_cell)
    /\ ~headers_set
    /\ table_header_row' = sub_header_row(table_header_row, row_idx)
    /\ Fail("write")
    /\ UNCHANGED <<output_exists, output, dir, entry_idx, headers_set, table_end_row,
                   remarks_start_row, report_date, row_idx, emitted, call, first_run>>

table_end_first_only(end_row, idx) == IF end_row < 0 THEN idx ELSE end_row

\* line 241: the assignment on a terminator row, whatever table_end_row holds
table_end_at(end_row, idx) == idx

\* lines 240-243
TableEnd ==
    /\ HasRow
    /\ ~is_data_start(first_cell)
    /\ is_data_end(first_cell)
    /\ table_end_row' = table_end_at(table_end_row, row_idx)
    /\ NextRow
    /\ UNCHANGED <<output_exists, output, dir, pc, result, error, entry_idx,
                   headers_set, table_header_row, remarks_start_row, report_date,
                   emitted, call, first_run>>

\* what lines 200 and 240 let through
Unmarked == HasRow /\ ~is_data_start(first_cell) /\ ~is_data_end(first_cell)

Skip ==
    /\ NextRow
    /\ UNCHANGED <<output_exists, output, dir, pc, result, error, entry_idx,
                   headers_set, table_header_row, table_end_row, remarks_start_row,
                   report_date, emitted, call, first_run>>

\* lines 245-247
PreHeaderRow ==
    /\ Unmarked
    /\ is_pre_header(row_idx, table_header_row)
    /\ Skip

\* lines 249-252
RemarksStart ==
    /\ Unmarked
    /\ ~is_pre_header(row_idx, table_header_row)
    /\ remarks_starts(remarks_start_row, first_cell)
    /\ remarks_start_row' = row_idx
    /\ NextRow
    /\ UNCHANGED <<output_exists, output, dir, pc, result, error, entry_idx,
                   headers_set, table_header_row, table_end_row, report_date,
                   emitted, call, first_run>>

\* what line 249 lets through
Candidate ==
    /\ Unmarked
    /\ ~is_pre_header(row_idx, table_header_row)
    /\ ~remarks_starts(remarks_start_row, first_cell)

\* line 254 is false: nothing is done with the row
OutsideTable ==
    /\ Candidate
    /\ ~in_table(table_header_row, table_end_row)
    /\ Skip

\* lines 255-257
BlankRow ==
    /\ Candidate
    /\ in_table(table_header_row, table_end_row)
    /\ is_empty(first_cell)
    /\ Skip

row_data_without_first(row) == [i \in 1..(Len(row) - 1) |-> to_string(row[i + 1])]

\* line 259
row_data(row) == [i \in 1..Len(row) |-> to_string(row[i])]

\* lines 260-261: the two writes that make one line
data_line(row, date) == join(row_data(row), <<",">>) \o <<",">> \o date

\* lines 254-262: a data row is written
DataRow ==
    /\ Candidate
    /\ in_table(table_header_row, table_end_row)
    /\ ~is_empty(first_cell)
    /\ output' = write_line(output, data_line(CurRow, report_date))
    /\ emitted' = Append(emitted, [kind |-> "data", doc |-> entry_idx, row |-> row_idx])
    /\ NextRow
    /\ UNCHANGED <<output_exists, dir, pc, result, error, entry_idx, headers_set,
                   table_header_row, table_end_row, remarks_start_row, report_date,
                   call, first_run>>

\* line 260: write! of the cells fails, nothing of the row is written
DataWriteFails ==
    /\ Candidate
    /\ in_table(table_header_row, table_end_row)
    /\ ~is_empty(first_cell)
    /\ Fail("write")
    /\ UNCHANGED <<output_exists, output, dir, entry_idx, headers_set, scan_vars,
                   emitted, call, first_run>>

\* line 261: writeln! of the date fails after the cells were written
DateWriteFails ==
    /\ Candidate
    /\ in_table(table_header_row, table_end_row)
    /\ ~is_empty(first_cell)
    /\ output' = write_line(output, join(row_data(CurRow), <<",">>))
    /\ emitted' = Append(emitted, [kind |-> "partial", doc |-> entry_idx, row |-> row_idx])
    /\ Fail("write")
    /\ UNCHANGED <<output_exists, dir, entry_idx, headers_set, scan_vars, call, first_run>>

Next ==
    \/ OpenOutput
    \/ RemoveOutputFails
    \/ CreateOutputFails
    \/ PlaceEntry
    \/ ReadDir
    \/ ReadDirFails
    \/ DirExhausted
    \/ EntryFails
    \/ SkipNotXlsx
    \/ OpenWorkbookFails
    \/ WorksheetMissing
    \/ BeginScan
    \/ RowsExhausted
    \/ HeaderStartSeen
    \/ HeaderStartWrite
    \/ HeaderWriteFails
    \/ TableEnd
    \/ PreHeaderRow
    \/ RemarksStart
    \/ OutsideTable
    \/ BlankRow
    \/ DataRow
    \/ DataWriteFails
    \/ DateWriteFails

Spec == Init /\ [][Next]_vars

-----------------------------------------------------------------------------
(* generate_output called a second time, lines 132-133: the directory is the *)
(* one the first run found; the output file is the one the first run left,   *)
(* or another one                                                            *)

RunAgain ==
    /\ pc = "done"
    /\ first_run = <<>>
    /\ \E same_file \in BOOLEAN :
           /\ first_run' = <<[output |-> output, result |-> result, error |-> error,
                              same_file |-> same_file]>>
           /\ IF same_file
              THEN UNCHANGED <<output, output_exists>>
              ELSE /\ output' \in {<<>>, <<StaleLine>>}
                   /\ output_exists' \in BOOLEAN
                   /\ (output' # <<>> => output_exists')
    /\ pc' = "open"
    /\ result' = "running"
    /\ error' = "none"
    /\ entry_idx' = 0
    /\ headers_set' = FALSE
    /\ table_header_row' = -1
    /\ table_end_row' = -1
    /\ remarks_start_row' = -1
    /\ report_date' = <<>>
    /\ row_idx' = 0
    /\ emitted' = <<>>
    /\ UNCHANGED <<dir, call>>

NextTwice == Next \/ RunAgain

SpecTwice == Init /\ [][NextTwice]_vars

-----------------------------------------------------------------------------
(* generate_output over directories of two entries whose sheets are tables:  *)
(* every sheet begins with a header-start row and its sub-row, so both       *)
(* sheets of a directory can hold records                                    *)

\* rows of a table below the sub-row
MaxBodyRows == 2

TableSheets ==
    UNION {{<<SheetRow(StringCell(DATA_START_ID), w), SheetRow(DataCell, w)>> \o body :
               body \in UNION {[1..n -> {SheetRow(f, w) : f \in FirstCells}]
                                  : n \in 0..MaxBodyRows}}
           : w \in 1..MaxCols}

TableEntries == {NotXlsx, Unopenable, NoSheet} \cup {Workbook(rows) : rows \in TableSheets}

\* the directories of two entries
TableDirs == TableEntries \X TableEntries

InitTables ==
    /\ output \in {<<>>, <<StaleLine>>}
    /\ output_exists \in BOOLEAN
    /\ (output # <<>> => output_exists)
    /\ dir \in TableDirs
    /\ pc = "open"
    /\ result = "running"
    /\ error = "none"
    /\ entry_idx = 0
    /\ headers_set = FALSE
    /\ table_header_row = -1
    /\ table_end_row = -1
    /\ remarks_start_row = -1
    /\ report_date = <<>>
    /\ row_idx = 0
    /\ emitted = <<>>
    /\ call = NoCall
    /\ first_run = <<>>

NextTables ==
    \/ OpenOutput
    \/ RemoveOutputFails
    \/ CreateOutputFails
    \/ ReadDir
    \/ ReadDirFails
    \/ DirExhausted
    \/ EntryFails
    \/ SkipNotXlsx
    \/ OpenWorkbookFails
    \/ WorksheetMissing
    \/ BeginScan
    \/ RowsExhausted
    \/ HeaderStartSeen
    \/ HeaderStartWrite
    \/ HeaderWriteFails
    \/ TableEnd
    \/ PreHeaderRow
    \/ RemarksStart
    \/ OutsideTable
    \/ BlankRow
    \/ DataRow
    \/ DataWriteFails
    \/ DateWriteFails

SpecTables == InitTables /\ [][NextTables]_vars

-----------------------------------------------------------------------------
(* format_header alone: one call on each text of a bounded set *)

Chars == {" ", "-", "\n", "\t", "A", "b", "_"}

DepthM == <<"D", "e", "p", "t", "h", " ", "(", "m", ")">>

HeaderTexts == UNION {[1..n -> Chars] : n \in 0..MaxStrLen} \cup {DepthM}

\* generate_output is not running
Idle ==
    /\ output_exists = FALSE
    /\ output = <<>>
    /\ dir = <<>>
    /\ pc = "idle"
    /\ result = "running"
    /\ error = "none"
    /\ entry_idx = 0
    /\ headers_set = FALSE
    /\ table_header_row = -1
    /\ table_end_row = -1
    /\ remarks_start_row = -1
    /\ report_date = <<>>
    /\ row_idx = 0
    /\ emitted = <<>>
    /\ first_run = <<>>

run_vars == <<output_exists, output, dir, pc, result, error, entry_idx, headers_set,
              scan_vars, emitted, first_run>>

InitFormat ==
    /\ Idle
    /\ \E s \in HeaderTexts :
           call = [op |-> "format_header", header |-> s, done |-> FALSE, ret |-> <<>>]

\* lines 270-277
CallFormatHeader ==
    /\ call.op = "format_header"
    /\ ~call.done
    /\ call' = [call EXCEPT !.done = TRUE, !.ret = format_header(call.header)]
    /\ UNCHANGED run_vars

NextFormat == CallFormatHeader

SpecFormat == InitFormat /\ [][NextFormat]_vars

-----------------------------------------------------------------------------
(* The header construction alone: one call on each pair of a header-start  *)
(* row and the row after it, from a bounded set                            *)

HeaderCells ==
    {EmptyCell, StringCell(<<"A">>), StringCell(<<"B", " ">>),
     StringCell(<<" ", "x">>), StringCell(<<"y">>), BoolCell(<<"t", "r", "u", "e">>)}

\* the example of the specification: main A, "", B over sub x, y, ""
ExampleMain == <<StringCell(<<"A">>), StringCell(<<>>), StringCell(<<"B">>)>>
ExampleSub == <<StringCell(<<"x">>), StringCell(<<"y">>), StringCell(<<>>)>>

\* a header-start row and its sub-row: of one width, or the sub-row is absent
HeaderRowPairs ==
    UNION {[1..w -> HeaderCells] \X ([1..w -> HeaderCells] \cup {<<>>})
           : w \in 1..MaxHdrCols}
        \cup {<<ExampleMain, ExampleSub>>}

InitHeaders ==
    /\ Idle
    /\ \E p \in HeaderRowPairs :
           call = [op |-> "headers", row |-> p[1], sub_headers |-> p[2],
                   done |-> FALSE, ret |-> <<>>]

\* lines 208-234
CallHeaders ==
    /\ call.op = "headers"
    /\ ~call.done
    /\ call' = [call EXCEPT !.done = TRUE,
                            !.ret = headers(call.row, call.sub_headers)]
    /\ UNCHANGED run_vars

NextHeaders == CallHeaders

SpecHeaders == InitHeaders /\ [][NextHeaders]_vars

-----------------------------------------------------------------------------
(* What the claims speak of *)

SetMin(S) == CHOOSE x \in S : \A y \in S : x <= y
SetMax(S) == CHOOSE x \in S : \A y \in S : y <= x

\* the decoded text of a cell: of a string or a number, else empty
Text(c) == IF c.t \in {"String", "Float", "Int"} THEN c.s ELSE <<>>

\* the text of the first cell of 0-based row i
FirstText(rows, i) == Text(rows[i + 1][1])
IsStartRow(rows, i) == FirstText(rows, i) = DATA_START_ID
IsEndRow(rows, i) == FirstText(rows, i) = DATA_END_ID
IsRemarksRow(rows, i) == FirstText(rows, i) = REMARKS_START_ID
IsBlankRow(rows, i) == rows[i + 1][1] = EmptyCell
RowIndices(rows) == 0..(Len(rows) - 1)
StartRows(rows) == {h \in RowIndices(rows) : IsStartRow(rows, h)}
EndRows(rows) == {e \in RowIndices(rows) : IsEndRow(rows, e)}
StartsBefore(rows, i) == {h \in StartRows(rows) : h < i}

\* row i lies after the sub-row of the latest header-start row before it and
\* before the first terminator row
InRegion(rows, i) ==
    /\ StartsBefore(rows, i) # {}
    /\ i > SetMax(StartsBefore(rows, i)) + 1
    /\ \A e \in EndRows(rows) : i < e

\* the row the scan designates as remarks-start row, -1 if it designates none:
\* the first 'Remarks' row that is not at or before a header sub-row
RemarksCandidates(rows) ==
    {r \in RowIndices(rows) :
        /\ IsRemarksRow(rows, r)
        /\ (StartsBefore(rows, r) # {} => r > SetMax(StartsBefore(rows, r)) + 1)}

RemarksRow(rows) ==
    IF RemarksCandidates(rows) = {} THEN -1 ELSE SetMin(RemarksCandidates(rows))

\* the sheets the run has entered, and the rows of them it is done with
Sheets_entered == {d \in 1..entry_idx : dir[d].sheet}
Scanned(d, i) == d < entry_idx \/ (d = entry_idx /\ i < row_idx)
ScannedRows(d) == {i \in RowIndices(dir[d].rows) : Scanned(d, i)}
EmittedData(d, i) ==
    \E k \in 1..Len(emitted) : emitted[k] = [kind |-> "data", doc |-> d, row |-> i]
DataLines == {k \in 1..Len(emitted) : emitted[k].kind = "data"}
HeaderLines == {k \in 1..Len(emitted) : emitted[k].kind = "header"}
RowOf(k) == dir[emitted[k].doc].rows[emitted[k].row + 1]
FieldCount(line) == 1 + Cardinality({i \in 1..Len(line) : line[i] = ","})

-----------------------------------------------------------------------------
(* C1 *)

\* C1 as stated, the header sub-row being the row after the first 'Hole Number'
\* row and the terminator the first 'Sub-Totals' row: a scanned row is a data
\* record iff it lies after that sub-row, before the terminator, has a non-empty
\* first cell and is not the remarks-start row.
C1_Original ==
    \A d \in Sheets_entered : \A i \in ScannedRows(d) :
        LET rows == dir[d].rows
        IN  EmittedData(d, i) <=>
                /\ StartRows(rows) # {}
                /\ i > SetMin(StartRows(rows)) + 1
                /\ \A e \in EndRows(rows) : i < e
                /\ ~IsBlankRow(rows, i)
                /\ i # RemarksRow(rows)

\* C1 (amended): a scanned row is a data record iff it is not itself a
\* 'Hole Number' row, lies strictly after the sub-row of the latest 'Hole Number'
\* row before it and strictly before the first 'Sub-Totals' row, has a non-empty
\* first cell and is not the remarks-start row.
C1_DataRowIff ==
    \A d \in Sheets_entered : \A i \in ScannedRows(d) :
        LET rows == dir[d].rows
        IN  EmittedData(d, i) <=>
                /\ ~IsStartRow(rows, i)
                /\ InRegion(rows, i)
                /\ ~IsBlankRow(rows, i)
                /\ i # RemarksRow(rows)

\* a record from below a second header-start row, in a sheet that is scanned through
C1_Witness ==
    \E d \in Sheets_entered : \E i \in ScannedRows(d) :
        /\ EmittedData(d, i)
        /\ Cardinality(StartsBefore(dir[d].rows, i)) >= 2
        /\ Scanned(d, Len(dir[d].rows) - 1)

-----------------------------------------------------------------------------
(* C2 *)

WithStart == {d \in 1..Len(dir) : StartRows(dir[d].rows) # {}}
HeaderLineOf(rows) ==
    LET h == SetMin(StartRows(rows))
    IN  join(headers(rows[h + 1], IF h + 2 <= Len(rows) THEN rows[h + 2] ELSE <<>>),
             <<",">>)
EndsWith(line, tail) ==
    Len(line) >= Len(tail) /\ SubSeq(line, Len(line) - Len(tail) + 1, Len(line)) = tail

\* C2: when the run is over (leaving aside the runs a failing write or a failing
\* directory listing ended), the header line was written at most once, exactly
\* once if some document of the directory has a header-start row, then from the
\* first such document, ending in the one field "date", and before any record.
C2_Original ==
    (pc = "done" /\ error \in {"none", "open_workbook"}) =>
        /\ Cardinality(HeaderLines) <= 1
        /\ \A k \in HeaderLines : k = 1
        /\ WithStart # {} =>
              /\ HeaderLines = {1}
              /\ emitted[1].doc = SetMin(WithStart)
              /\ output[1] = HeaderLineOf(dir[SetMin(WithStart)].rows)
              /\ EndsWith(output[1], <<"d", "a", "t", "e">>)

\* C2, where it holds: the same in every run in which every workbook of the
\* directory opens.
C2_WhenWorkbooksOpen ==
    (\A d \in 1..Len(dir) : dir[d].ext = "xlsx" => dir[d].opens) => C2_Original

-----------------------------------------------------------------------------
(* C3 *)

\* C3 as stated: every data record has as many fields as the header line
\* (the composite header and the provenance column).
C3_Original ==
    \A k \in DataLines : \A h \in HeaderLines :
        FieldCount(output[k]) = FieldCount(output[h])

\* C3 (amended): every data record has one field per column of the sheet it
\* comes from and one more, the provenance; that is the field count of the
\* header line exactly when that sheet is as wide as the sheet of the header.
C3_FieldCount ==
    \A k \in DataLines :
        /\ FieldCount(output[k]) = Len(RowOf(k)) + 1
        /\ HeaderLines # {}
        /\ \A h \in HeaderLines :
               (FieldCount(output[k]) = FieldCount(output[h]))
                   <=> (Len(RowOf(k)) = Len(RowOf(h)))

\* a record of a sheet that is not as wide as the sheet of the header
C3_Witness ==
    \E k \in DataLines : \E h \in HeaderLines : Len(RowOf(k)) # Len(RowOf(h))

-----------------------------------------------------------------------------
(* C4 *)

Undecodable(e) == e.ext = "xlsx" /\ (~e.opens \/ ~e.sheet)

\* C4: a document that cannot be decoded (the workbook does not open, or it has
\* no row view) puts nothing in the output and does not make the run return an
\* error: the run goes on with the next entry.
C4_Original ==
    \A d \in 1..entry_idx :
        Undecodable(dir[d]) =>
            /\ \A k \in 1..Len(emitted) : emitted[k].doc # d
            /\ ~(d = entry_idx /\ result = "Err" /\ error = "open_workbook")

-----------------------------------------------------------------------------
(* C5 *)

\* C5: every step of the scan of a sheet without a 'Hole Number' row leaves
\* the output and headers_set as they are: no record of that sheet is written
\* and the header state after the sheet is that before it.
C5_NoStartNoEffect ==
    [][(pc = "rows" /\ StartRows(CurRows) = {})
          => (output' = output /\ emitted' = emitted /\ headers_set' = headers_set
              /\ result' = result)]_vars

\* a sheet without header-start row but with an ordinary row, scanned through
\* after another sheet gave the header
C5_Witness ==
    /\ pc = "rows"
    /\ row_idx = Len(CurRows)
    /\ StartRows(CurRows) = {}
    /\ \E i \in RowIndices(CurRows) : CurRows[i + 1][1] = DataCell
    /\ headers_set

-----------------------------------------------------------------------------
(* C6 *)

\* C6 as stated: once a 'Remarks' row was seen in the data region, no later row
\* of the sheet is a data record.
C6_Original ==
    \A d \in Sheets_entered : \A i \in ScannedRows(d) :
        (\E r \in 0..(i - 1) :
              IsRemarksRow(dir[d].rows, r) /\ InRegion(dir[d].rows, r))
            => ~EmittedData(d, i)

\* C6 (amended): the remarks-start row is not a data record, and every later
\* row of the data region that has a non-empty first cell and is no
\* header-start row is one.
C6_RemarksOnlyItself ==
    \A d \in Sheets_entered :
        LET rows == dir[d].rows
            r == RemarksRow(rows)
        IN  r >= 0 =>
               /\ ~EmittedData(d, r)
               /\ \A i \in ScannedRows(d) :
                      (i > r /\ InRegion(rows, i) /\ ~IsStartRow(rows, i)
                         /\ ~IsBlankRow(rows, i))
                          => EmittedData(d, i)

\* a record from below the remarks-start row of the data region
C6_Witness ==
    \E d \in Sheets_entered : \E i \in ScannedRows(d) :
        /\ EmittedData(d, i)
        /\ RemarksRow(dir[d].rows) \in 0..(i - 1)
        /\ InRegion(dir[d].rows, RemarksRow(dir[d].rows))
        /\ ~IsRemarksRow(dir[d].rows, i)

-----------------------------------------------------------------------------
(* C7 *)

\* C7 as stated: no data record comes from a row whose first cell is 'Remarks'.
C7_Original ==
    \A k \in DataLines : Text(RowOf(k)[1]) # REMARKS_START_ID

\* C7 (amended): a 'Remarks' row is a data record iff it lies in the data
\* region and an earlier row of the sheet is the remarks-start row; the first
\* 'Remarks' row of a sheet never is.
C7_RemarksRows ==
    \A d \in Sheets_entered : \A i \in ScannedRows(d) :
        LET rows == dir[d].rows
        IN  IsRemarksRow(rows, i) =>
               /\ EmittedData(d, i) <=>
                      (InRegion(rows, i) /\ RemarksRow(rows) \in 0..(i - 1))
               /\ (\A r \in 0..(i - 1) : ~IsRemarksRow(rows, r)) => ~EmittedData(d, i)

\* a 'Remarks' row written as a data record
C7_Witness ==
    \E k \in DataLines : Text(RowOf(k)[1]) = REMARKS_START_ID

-----------------------------------------------------------------------------
(* C8 *)

\* the texts of cells 1..i, each followed by a comma
RECURSIVE CellsThen(_, _)
CellsThen(row, i) ==
    IF i = 0 THEN <<>> ELSE CellsThen(row, i - 1) \o row[i].s \o <<",">>

\* the text of cell (1, 0) of a sheet, empty when there is none
Provenance(rows) == IF Len(rows) >= 2 THEN Text(rows[2][1]) ELSE <<>>

\* C8: every data record is the cells of its row, all of them in their order,
\* and then one field, the provenance of the sheet the row is in.
C8_RecordContent ==
    \A k \in DataLines :
        output[k] = CellsThen(RowOf(k), Len(RowOf(k)))
                        \o Provenance(dir[emitted[k].doc].rows)

\* a record of the second sheet of a directory whose first sheet has another
\* provenance
C8_Witness ==
    \E k \in DataLines :
        /\ emitted[k].doc = 2
        /\ dir[1].sheet
        /\ Provenance(dir[1].rows) # Provenance(dir[2].rows)
        /\ Provenance(dir[2].rows) # <<>>

-----------------------------------------------------------------------------
(* C9 *)

\* the main header of 1-based column i: the text of the nearest cell at or left
\* of i that has one
MainAt(row, i) ==
    LET filled == {j \in 1..i : Text(row[j]) # <<>>}
    IN  IF filled = {} THEN <<>> ELSE Text(row[SetMax(filled)])
SubAt(sub, i) == IF i <= Len(sub) THEN Text(sub[i]) ELSE <<>>
HeadersDone == call.op = "headers" /\ call.done

\* C9 as stated: field i is normalize(m) without a sub-header and
\* normalize(m) + "_" + normalize(sub[i]) with one.
C9_Original ==
    HeadersDone =>
        \A i \in 1..Len(call.row) :
            LET m == MainAt(call.row, i)
                sub == SubAt(call.sub_headers, i)
            IN  call.ret[i] = IF sub = <<>> THEN format_header(m)
                              ELSE format_header(m) \o <<"_">> \o format_header(sub)

\* C9 (amended): field i is normalize(m) without a sub-header and
\* normalize(m + "_" + sub[i]) with one, the two parts normalized as one text;
\* that is normalize(m) + "_" + normalize(sub[i]) when m does not end in
\* whitespace and sub[i] does not begin with it.
C9_CompositeHeader ==
    HeadersDone =>
        /\ Len(call.ret) = Len(call.row) + 1
        /\ \A i \in 1..Len(call.row) :
            LET m == MainAt(call.row, i)
                sub == SubAt(call.sub_headers, i)
            IN  /\ call.ret[i] = IF sub = <<>> THEN format_header(m)
                                 ELSE format_header(m \o <<"_">> \o sub)
                /\ (/\ sub # <<>>
                    /\ (m # <<>> => ~is_whitespace(m[Len(m)]))
                    /\ ~is_whitespace(sub[1]))
                    => call.ret[i] = format_header(m) \o <<"_">> \o format_header(sub)

\* the example of the specification, constructed
C9_Witness ==
    /\ HeadersDone
    /\ call.row = ExampleMain
    /\ call.sub_headers = ExampleSub
    /\ call.ret = <<<<"a", "_", "x">>, <<"a", "_", "y">>, <<"b">>,
                    <<"d", "a", "t", "e">>>>

-----------------------------------------------------------------------------
(* C10 *)

\* lower-case, cut the whitespace off both ends, then an underscore for each
\* space, hyphen and newline that is left
Normalized(s) ==
    LET lowered == [i \in 1..Len(s) |-> lower_char(s[i])]
        inner == {i \in 1..Len(s) : lowered[i] \notin {" ", "\n", "\t", "\r"}}
        trimmed == IF inner = {} THEN <<>>
                   ELSE SubSeq(lowered, SetMin(inner), SetMax(inner))
    IN  [i \in 1..Len(trimmed) |->
            IF trimmed[i] \in {" ", "-", "\n"} THEN "_" ELSE trimmed[i]]

\* C10: format_header gives its input lower-cased, trimmed at both ends, each
\* space, hyphen and newline left replaced by one underscore and every other
\* character kept; "Depth (m)" gives "depth_(m)".
C10_FormatHeader ==
    (call.op = "format_header" /\ call.done) =>
        /\ call.ret = Normalized(call.header)
        /\ call.header = DepthM
              => call.ret = <<"d", "e", "p", "t", "h", "_", "(", "m", ")">>

\* two inner spaces give two underscores
C10_Witness ==
    /\ call.op = "format_header"
    /\ call.done
    /\ call.header = <<"A", " ", " ", "b">>
    /\ call.ret = <<"a", "_", "_", "b">>

-----------------------------------------------------------------------------
(* C11 *)

\* a run that no failure of the file system ended: it returned Ok, or Err at a
\* workbook of the directory that does not open
EndedByInput(res, err) == res = "Ok" \/ (res = "Err" /\ err = "open_workbook")
SecondRunDone == first_run # <<>> /\ pc = "done"

\* C11: when a second run over the same directory is over, and neither run was
\* ended by a failing write or a failing listing, the output file of the second
\* run holds the very lines the output file of the first run held, and the
\* second run returned what the first returned; this whether the second run
\* wrote to the file the first run left or to another file.
C11_SameOutputTwice ==
    (/\ SecondRunDone
     /\ EndedByInput(first_run[1].result, first_run[1].error)
     /\ EndedByInput(result, error))
        => /\ output = first_run[1].output
           /\ result = first_run[1].result
           /\ error = first_run[1].error

\* a second run that wrote a header and a record to the file the first run
\* left with these two lines
C11_Witness ==
    /\ SecondRunDone
    /\ result = "Ok"
    /\ first_run[1].result = "Ok"
    /\ first_run[1].same_file
    /\ Len(first_run[1].output) >= 2
    /\ DataLines # {}

-----------------------------------------------------------------------------
(* C12 *)

IsPrefix(s, t) == Len(s) <= Len(t) /\ SubSeq(t, 1, Len(s)) = s

\* C12: the step at which a write fails ends the run with Err where it stands
\* (the document and the row of the failure), adds no complete line to the
\* output and keeps every line written before; and after it the run takes no
\* row and no document any more and writes nothing.
C12_WriteFailureAborts ==
    [][/\ (error = "none" /\ error' = "write") =>
              /\ pc' = "done"
              /\ result' = "Err"
              /\ entry_idx' = entry_idx
              /\ row_idx' = row_idx
              /\ IsPrefix(output, output')
              /\ \A k \in (Len(output) + 1)..Len(output') :
                     emitted'[k].kind = "partial"
       /\ (error = "write") =>
              UNCHANGED <<output, emitted, entry_idx, row_idx, pc, result, error>>
      ]_vars

\* a write failed after a line was written, with a row of the document and a
\* document of the directory still to come
C12_Witness ==
    /\ error = "write"
    /\ first_run = <<>>
    /\ Len(output) >= 1
    /\ row_idx + 1 < Len(CurRows)
    /\ entry_idx < Len(dir)

-----------------------------------------------------------------------------
(* C13 *)

\* C13: the lines of the output are the lines written, in the order they were
\* written; each data record is the line of its row; and of two data records
\* the earlier one is of an earlier document of the enumeration, or of the
\* same document and a row of smaller index.
C13_RecordOrder ==
    \A k \in DataLines :
        /\ k <= Len(output)
        /\ output[k] = data_line(RowOf(k), report_date_of(dir[emitted[k].doc].rows))
        /\ \A j \in DataLines :
               j < k => \/ emitted[j].doc < emitted[k].doc
                        \/ /\ emitted[j].doc = emitted[k].doc
                           /\ emitted[j].row < emitted[k].row

\* two records of one document and then a record of a later document of
\* another width
C13_Witness ==
    \E j, k, l \in DataLines :
        /\ j < k
        /\ k < l
        /\ emitted[j].doc = emitted[k].doc
        /\ emitted[k].doc < emitted[l].doc
        /\ Len(RowOf(k)) # Len(RowOf(l))

-----------------------------------------------------------------------------
(* C14 *)

\* a step of the scan that stays within the sheet
StepInSheet == pc = "rows" /\ pc' = "rows"
EndRowsBefore(rows, i) == {e \in EndRows(rows) : e < i}

\* C14 as stated: both start unset; once table_end_row is set it keeps its
\* value to the end of the scan of the document, and so does remarks_start_row.
C14_Original ==
    [][/\ (pc = "entries" /\ pc' = "rows") =>
              (table_end_row' = -1 /\ remarks_start_row' = -1)
       /\ (StepInSheet /\ table_end_row >= 0) => table_end_row' = table_end_row
       /\ (StepInSheet /\ remarks_start_row >= 0) =>
              remarks_start_row' = remarks_start_row
      ]_vars

\* C14 (amended): both start unset; once table_end_row is set it stays set to
\* the end of the scan of the document, holding the index of the latest
\* terminator row scanned (a later 'Sub-Totals' row moves it to its own index);
\* once remarks_start_row is set it keeps its value.
C14_EndMovesRemarksStays ==
    [][/\ (pc = "entries" /\ pc' = "rows") =>
              (table_end_row' = -1 /\ remarks_start_row' = -1)
       /\ StepInSheet =>
              /\ table_end_row' =
                     IF EndRowsBefore(CurRows, row_idx') = {} THEN -1
                     ELSE SetMax(EndRowsBefore(CurRows, row_idx'))
              /\ table_end_row >= 0 => table_end_row' >= table_end_row
              /\ remarks_start_row >= 0 => remarks_start_row' = remarks_start_row
      ]_vars

\* two terminator rows and, after the remarks-start row, another 'Remarks' row
\* have been scanned
C14_Witness ==
    /\ pc = "rows"
    /\ Cardinality(EndRowsBefore(CurRows, row_idx)) >= 2
    /\ remarks_start_row >= 0
    /\ \E r \in (remarks_start_row + 1)..(row_idx - 1) : IsRemarksRow(CurRows, r)

-----------------------------------------------------------------------------
(* C15 *)

\* C15 as stated: while a document is scanned, table_header_row is the index
\* of the sub-row of the first header-start row scanned, however many
\* header-start rows were scanned since.
C15_Original ==
    (pc = "rows" /\ StartsBefore(CurRows, row_idx) # {}) =>
        table_header_row = SetMin(StartsBefore(CurRows, row_idx)) + 1

\* C15 (amended): while a document is scanned, table_header_row is unset until
\* a header-start row is scanned and then the index of the sub-row of the
\* latest header-start row scanned, so each recurrence moves the lower bound;
\* the row after a header-start row is never a data record.
C15_BoundFollowsLatest ==
    pc = "rows" =>
        /\ table_header_row =
               IF StartsBefore(CurRows, row_idx) = {} THEN -1
               ELSE SetMax(StartsBefore(CurRows, row_idx)) + 1
        /\ \A i \in ScannedRows(entry_idx) :
               (i >= 1 /\ IsStartRow(CurRows, i - 1)) => ~EmittedData(entry_idx, i)

\* a second header-start row and the row after it, an ordinary row below the
\* first sub-row, have been scanned
C15_Witness ==
    /\ pc = "rows"
    /\ \E h \in StartsBefore(CurRows, row_idx) :
           /\ h > SetMin(StartsBefore(CurRows, row_idx)) + 1
           /\ h + 1 < row_idx
           /\ CurRows[h + 2][1] = DataCell

-----------------------------------------------------------------------------
(* C16 *)

\* the lines of each kind written for row i of document d
Written(d, i) == {k \in 1..Len(emitted) : emitted[k].doc = d /\ emitted[k].row = i}
AfterTerminator(rows, i) == EndRowsBefore(rows, i) # {}
\* no sheet before document d has a header-start row
NoStartBefore(d) == \A c \in 1..(d - 1) : StartRows(dir[c].rows) = {}

\* C16 as stated: a row scanned after a terminator row of its document writes
\* nothing, neither a data record nor the header line.
C16_Original ==
    \A d \in Sheets_entered : \A i \in ScannedRows(d) :
        AfterTerminator(dir[d].rows, i) => Written(d, i) = {}

\* C16 (amended): a row scanned after a terminator row of its document writes
\* no data record, in whole or in part; it writes the header line of the run
\* exactly when it is the first header-start row of the first document that
\* has one, terminator or not.
C16_NoRecordAfterTerminator ==
    \A d \in Sheets_entered : \A i \in ScannedRows(d) :
        LET rows == dir[d].rows
        IN  AfterTerminator(rows, i) =>
               /\ \A k \in Written(d, i) : emitted[k].kind = "header"
               /\ Written(d, i) # {} <=>
                      /\ IsStartRow(rows, i)
                      /\ i = SetMin(StartRows(rows))
                      /\ NoStartBefore(d)

\* the header line came from a row below a terminator row, and an ordinary row
\* below its sub-row was scanned
C16_Witness ==
    \E k \in HeaderLines :
        LET d == emitted[k].doc
            h == emitted[k].row
        IN  /\ AfterTerminator(dir[d].rows, h)
            /\ \E i \in ScannedRows(d) : i > h + 1 /\ dir[d].rows[i + 1][1] = DataCell

-----------------------------------------------------------------------------
(* C17 *)

\* the scan of document d has come to the end of its rows
ScannedThrough(d) ==
    \/ d < entry_idx
    \/ (d = entry_idx /\ pc = "rows" /\ row_idx = Len(dir[d].rows))
    \/ (d = entry_idx /\ pc = "done" /\ result = "Ok")
\* the data records of document d: the row index and the line of each
RecordsOf(d) ==
    {<<emitted[k].row, output[k]>> : k \in {j \in DataLines : emitted[j].doc = d}}
HeaderFrom(d) == {k \in HeaderLines : emitted[k].doc = d}

\* C17: two documents of one directory that have the same rows, the earlier
\* scanned from the state in which it is, the later with headers_set true,
\* yield the same data records: the same rows, the same lines; the header line
\* is the only line that can come from the one and not from the other.
C17_RecordsIgnoreHeadersSet ==
    \A c, d \in Sheets_entered :
        (c < d /\ dir[c].rows = dir[d].rows /\ ScannedThrough(c) /\ ScannedThrough(d))
            => /\ RecordsOf(c) = RecordsOf(d)
               /\ \A k \in 1..Len(emitted) :
                      emitted[k].doc \in {c, d} => emitted[k].kind \in {"data", "header"}
               /\ HeaderFrom(d) = {}

\* the same rows scanned twice, first with headers_set false (the header line
\* is theirs), then with headers_set true, and a record from them each time
C17_Witness ==
    \E c, d \in Sheets_entered :
        /\ c < d
        /\ dir[c].rows = dir[d].rows
        /\ ScannedThrough(c)
        /\ ScannedThrough(d)
        /\ HeaderFrom(c) # {}
        /\ RecordsOf(c) # {}
        /\ RecordsOf(d) # {}

-----------------------------------------------------------------------------
(* C18 *)

\* the 'Remarks' rows scanned so far that were not at or before the header
\* sub-row current when they were scanned
RemarksCandidatesBefore(rows, i) == {r \in RemarksCandidates(rows) : r < i}

\* C18: while a document is scanned, remarks_start_row is unset until a
\* 'Remarks' row is scanned that is not at or before the current header
\* sub-row (any such row while no header-start row was scanned), and from then
\* on the index of that row; that row is no data record; every 'Remarks' row
\* scanned after it that lies after the current header sub-row and before the
\* terminator is a data record, and so is every other such row with a
\* non-empty first cell: the rule keeps one row out and no more.
C18_RemarksSuppressesOneRow ==
    pc = "rows" =>
        LET rows == CurRows
            d == entry_idx
        IN  /\ remarks_start_row =
                   IF RemarksCandidatesBefore(rows, row_idx) = {} THEN -1
                   ELSE SetMin(RemarksCandidatesBefore(rows, row_idx))
            /\ remarks_start_row >= 0 => ~EmittedData(d, remarks_start_row)
            /\ \A i \in ScannedRows(d) :
                   (remarks_start_row >= 0 /\ i > remarks_start_row /\ InRegion(rows, i)
                      /\ ~IsStartRow(rows, i) /\ ~IsBlankRow(rows, i))
                       => EmittedData(d, i)

\* the remarks-start row was set before any header-start row was scanned, and
\* a later 'Remarks' row of the table is a data record
C18_Witness ==
    /\ pc = "rows"
    /\ remarks_start_row >= 0
    /\ StartsBefore(CurRows, remarks_start_row) = {}
    /\ \E i \in ScannedRows(entry_idx) :
           IsRemarksRow(CurRows, i) /\ EmittedData(entry_idx, i)

-----------------------------------------------------------------------------
(* C19 *)

\* the line the run wrote as its k-th
LineWritten(k) ==
    LET rows == dir[emitted[k].doc].rows
        i == emitted[k].row
    IN  CASE emitted[k].kind = "header" ->
                 join(headers(rows[i + 1], IF i + 2 <= Len(rows) THEN rows[i + 2] ELSE <<>>),
                      <<",">>)
          [] emitted[k].kind = "data" -> data_line(rows[i + 1], report_date_of(rows))
          [] OTHER -> join(row_data(rows[i + 1]), <<",">>)

\* the output file holds the lines this run wrote and no other
OnlyOwnLines ==
    /\ Len(output) = Len(emitted)
    /\ \A k \in 1..Len(output) : output[k] = LineWritten(k)

\* C19 as stated: whenever generate_output has returned, with Ok or with Err,
\* the output file holds only lines written by that run.
C19_Original == pc = "done" => OnlyOwnLines

\* the output file as the run found it: what the first run left, or a file
\* of another origin
FoundOutput ==
    IF first_run # <<>> /\ first_run[1].same_file THEN {first_run[1].output}
    ELSE {<<>>, <<StaleLine>>}

\* C19 (amended): a run that returns Err from the removal or the creation of
\* the output file has written nothing and leaves the file as it found it, or
\* no file; every other run has the file removed and created empty before the
\* directory is listed, and from then on, so also when it returns, the file
\* holds only the lines the run wrote: none at all when the listing failed.
C19_OwnLinesOnceRecreated ==
    /\ error = "output_file" =>
           /\ pc = "done"
           /\ emitted = <<>>
           /\ output \in FoundOutput \/ (output = <<>> /\ ~output_exists)
    /\ (pc # "open" /\ error # "output_file") => (output_exists /\ OnlyOwnLines)
    /\ (pc = "read_dir" \/ error = "read_dir") => output = <<>>

\* the second run wrote to the file the first run left with lines in it, the
\* listing of the directory failed, and the file is empty
C19_Witness ==
    /\ SecondRunDone
    /\ error = "read_dir"
    /\ first_run[1].same_file
    /\ first_run[1].result = "Ok"
    /\ Len(first_run[1].output) >= 2
    /\ output_exists
    /\ output = <<>>

====
